---- MODULE Spec2Model ----
(***************************************************************************)
(* Capture session manager of the teleprompter page, in its three source   *)
(* variants:                                                               *)
(*   "T"  : src/pages/teleprompter.tsx                                     *)
(*   "P5" : src/unnamed/part_005  (camera attached on start)               *)
(*   "P4" : src/unnamed/part_004  (countdown variant, remote control)      *)
(* The page is single threaded: every action below is one event handler,   *)
(* one promise continuation, one timer callback or one recorder callback,  *)
(* run to completion together with the React re-render and the effects     *)
(* that its state updates cause.                                           *)
(*                                                                         *)
(* Every handleStart invocation ("attempt") a acquires at most one camera  *)
(* stream, one microphone stream, one MediaRecorder and one object URL;    *)
(* these objects are named by the attempt that created them.               *)
(***************************************************************************)
EXTENDS Integers, Sequences, FiniteSets, TLC

(* ------------------------------ bounds -------------------------------- *)
MaxStarts == 2      \* handleStart invocations per page load
MaxChunks == 2      \* chunks held in recordedBlobsRef at once
MaxTimers == 1      \* P4: pending "back to idle" timers of handleFinish

Variants == {"T", "P5", "P4"}
Attempts == 1..MaxStarts
NULL == -1          \* a null ref that otherwise holds a timestamp

VARIABLES
  variant,          \* which source variant the page runs
  hasMR,            \* window.MediaRecorder exists
  mounted,          \* the page component is mounted
  recState,         \* useState recState
  tcError,          \* useState error message, tcError/permError ("" = none)
  downloadUrl,      \* useState downloadUrl: 0 = "", else the attempt whose
                    \*   recorder's onstop created the URL
  urls,             \* per attempt: the object URL its onstop created
  media,            \* the media handles (streams, recorders and the refs)
  recordedBlobs,    \* recordedBlobsRef.current: emitting attempt per chunk
  pc,               \* per attempt: where its handleStart is suspended
  autoStart,        \* settings.autoStart / autoStart
  autoTimer,        \* the auto-start setTimeout: "off", or the recState its
                    \*   callback closed over when it was set
  finishTimers,     \* P4: pending setTimeout(() => setRecState("idle"))
  permError,        \* P4: useState permError ("" = none)
  durationRef,      \* P4: durationRef.current, in whole ms (0 in T and P5,
                    \*   which have no such ref)
  rafRef,           \* rafRef.current: 1 = the handle of a pending animation
                    \*   frame, 0 = null or a handle that is no longer pending
  rafPending,       \* number of animation frames requested and neither run
                    \*   nor cancelled (a frame that reschedules itself is
                    \*   one chain and counts once)
  now,              \* performance.now()
  startTs,          \* startTsRef.current
  pauseOffset,      \* pauseOffsetRef.current
  lastPauseStart,   \* lastPauseStartRef.current (NULL = null)
  pausedAt,         \* P4: pausedAtRef.current
  sinceReset,       \* history: a reset handler has run and no handleStart
                    \*   has run since
  stopAsked,        \* history (T, P5): handleStop has run while recording or
                    \*   paused and no recorder stop event has run since
  wall,             \* history: wall-clock measurements since the latest
                    \*   start or reset, see NoWall
  wpm,              \* P4: useState wpm
  fontSize,         \* P4: useState fontSize, a number or "fit"
  mirror,           \* P4: useState mirror
  pipPct,           \* P4: useState pipPct
  captured,         \* P4, per attempt: the settings of the render whose
                    \*   handleStart the attempt runs in
  frameClosure,     \* P4: the settings of the render whose layoutAndDraw
                    \*   the latest requested frame chain runs
  pacing,           \* T, P5: the script's cumulative word counts and the
                    \*   rate, and in .frame the arguments and the result of
                    \*   the latest frame's findCurrentLineIndex; in .calls
                    \*   those of two calls of findCurrentLineIndex; in
                    \*   .script the text of the script and in .meta its
                    \*   buildLineMeta
  fontFit,          \* P5: what the latest frame's font fitting was given
                    \*   and the font size it drew with
  remote            \* the remote controller page (teleprompter-remote.tsx),
                    \*   see NoRemotePage

envVars   == <<variant, hasMR, pacing, fontFit, remote>>
setVars   == <<wpm, fontSize, mirror, pipPct>>
closVars  == <<captured, frameClosure>>
histVars  == <<sinceReset, stopAsked, wall>>
timeVars  == <<startTs, pauseOffset, lastPauseStart, pausedAt>>
rafVars   == <<rafRef, rafPending>>
p4Vars    == <<finishTimers, permError, durationRef>>
vars == <<variant, hasMR, mounted, recState, tcError, downloadUrl, urls,
          media, recordedBlobs, pc, autoStart, autoTimer,
          finishTimers, permError, durationRef, rafRef, rafPending, now, startTs,
          pauseOffset,
          lastPauseStart, pausedAt, sinceReset, stopAsked, wall,
          wpm, fontSize, mirror, pipPct, captured, frameClosure, pacing,
          fontFit, remote>>

(* ---------------------------- media handles --------------------------- *)
\* media.cam[a]     attempt a's camera stream is live (P5: attachCamera)
\* media.mic[a]     attempt a's microphone stream is live
\* media.rec[a]     attempt a's MediaRecorder: "none" (not constructed),
\*                  "recording", "paused", "stopping" (inactive, its
\*                  dataavailable/stop events queued) or "inactive"
\* media.mediaRecorderRef   0 = null, else the attempt of the recorder
\* media.videoSrc   video.srcObject when it is an attempt's camera, else 0
\* media.preview    the camera stream acquired by the mount effect is live
\*                  and held (T: video.srcObject, P4: camStreamRef)
\* media.micStreamRef  P4: micStreamRef.current, 0 = null or all stopped
NoMedia ==
  [cam |-> [a \in Attempts |-> FALSE],
   mic |-> [a \in Attempts |-> FALSE],
   rec |-> [a \in Attempts |-> "none"],
   mediaRecorderRef |-> 0,
   videoSrc |-> 0,
   preview |-> FALSE,
   micStreamRef |-> 0]

Active(st) == st \in {"recording", "paused"}

\* stopTracks(): stop every track of video.srcObject and detach it; after
\* unmount videoRef.current is null and nothing is done
stopTracks(m) ==
  IF mounted
  THEN [m EXCEPT !.cam = [a \in Attempts |-> m.cam[a] /\ a # m.videoSrc],
                 !.videoSrc = 0,
                 !.preview = FALSE]
  ELSE m

\* MediaRecorder.stop() on recorder r: an inactive recorder ignores it; an
\* active one becomes inactive at once and its events are queued as a task
RecorderStop(m, r) ==
  IF r # 0 /\ Active(m.rec[r]) THEN [m EXCEPT !.rec[r] = "stopping"] ELSE m

\* if (mediaRecorderRef.current) { mediaRecorderRef.current.stop();
\*                                 mediaRecorderRef.current = null }
stopRef(m) ==
  [RecorderStop(m, m.mediaRecorderRef) EXCEPT !.mediaRecorderRef = 0]

\* stopMediaRecorder(): T stops the referenced recorder; P5 also calls
\* stopTracks()
stopMediaRecorder(m) ==
  IF variant = "P5" THEN stopTracks(stopRef(m)) ELSE stopRef(m)

(* ------------------------------ object URLs --------------------------- *)
NoUrl == [made |-> FALSE, revoked |-> 0, chunks |-> <<>>]

\* URL.revokeObjectURL(prev) guarded by if (prev)
Revoke(U, u) ==
  IF u = 0 THEN U
  ELSE [U EXCEPT ![u].revoked = @ + 1, ![u].chunks = <<>>]

\* URL.createObjectURL(new Blob(recordedBlobsRef.current)) by attempt a
Create(U, a) == [U EXCEPT ![a] = [made |-> TRUE, revoked |-> 0,
                                  chunks |-> recordedBlobs]]

(* --------------------------- animation frames ------------------------- *)
\* A frame callback that reschedules itself forms a chain.  Only the handle
\* in rafRef.current can be cancelled; a pending frame whose handle has been
\* overwritten there keeps running.
\* if (rafRef.current) cancelAnimationFrame(rafRef.current), as a count:
CancelRaf(n, ref) == n - ref

(* ----------------------------- settings ------------------------------ *)
\* JavaScript values that reach the settings: numbers, NaN, booleans and
\* the string "fit"
Num(n)  == [t |-> "num", v |-> n]
NaN     == [t |-> "nan", v |-> 0]
Bool(b) == [t |-> "bool", v |-> IF b THEN 1 ELSE 0]
Fit     == [t |-> "fit", v |-> 0]

\* ToBoolean: 0, NaN and false are falsy
Truthy(x) == x.t = "fit" \/ (x.t \in {"num", "bool"} /\ x.v # 0)

\* ToNumber: true is 1, false is 0, "fit" is NaN
ToNumber(x) == IF x.t \in {"num", "bool"} THEN Num(x.v) ELSE NaN

\* Math.min / Math.max of two values: NaN when either is NaN
MathMin(a, b) ==
  LET x == ToNumber(a)  y == ToNumber(b)
  IN IF x = NaN \/ y = NaN THEN NaN ELSE IF x.v <= y.v THEN x ELSE y
MathMax(a, b) ==
  LET x == ToNumber(a)  y == ToNumber(b)
  IN IF x = NaN \/ y = NaN THEN NaN ELSE IF x.v >= y.v THEN x ELSE y

\* Math.max(lo, Math.min(hi, x))
\* (mutant: the value is passed on as it is)
Clamp_skipped(lo, hi, x) == x
Clamp(lo, hi, x) == MathMax(Num(lo), MathMin(Num(hi), x))

\* a || b
OrElse(a, b) == IF Truthy(a) THEN a ELSE b

\* the settings that a frame reads from the render it was created in
Settings == <<mirror, fontSize, pipPct>>
\* those of the first render
FirstSettings == <<FALSE, Fit, Num(18)>>

(* ------------------------------ timing -------------------------------- *)
\* lineMeta.totalWords: the last cumulative count
\* (mutant: the count of the first line)
totalWords_firstLine(cumulativeWords) == cumulativeWords[1]
totalWords(cumulativeWords) == cumulativeWords[Len(cumulativeWords)]

\* (lineMeta.totalWords / settings.wpm) * 60000 of the loaded script, in
\* whole ms, and what is left of the division
totalMs == (totalWords(pacing.cumulativeWords) * 60000) \div pacing.wpm
totalMsRest == (totalWords(pacing.cumulativeWords) * 60000) % pacing.wpm

\* the elapsed time that drawFrame computes when it runs in this state
\* (T, P5)
elapsedT ==
  IF recState = "recording"
  THEN now - (IF startTs = 0 THEN now ELSE startTs) - pauseOffset
  ELSE IF recState = "paused" /\ startTs # 0
  THEN (IF lastPauseStart = NULL THEN now ELSE lastPauseStart)
       - startTs - pauseOffset
  ELSE IF recState = "finished" THEN totalMs
  ELSE 0

\* the elapsed time that layoutAndDraw computes when it runs in this state
\* (P4): Math.max(0, now - (startTsRef.current || now))
elapsedP4 ==
  LET d == now - (IF startTs # 0 THEN startTs ELSE now)
  IN IF d > 0 THEN d ELSE 0

elapsed == IF variant = "P4" THEN elapsedP4 ELSE elapsedT

\* the words of FALLBACK_SCRIPT, the script that P4 loads, as the regular
\* expression of the duration effect counts them
FallbackWords == 14

\* P4's duration effect, which runs on mount and when the script or the
\* rate has changed:
\*   wordsRef.current = Math.max(1, totalWords)
\*   durationRef.current = (wordsRef.current / Math.max(20, wpm)) * 60_000
\* in whole ms; a rate that is not a number gives NaN, which the frame
\* treats as it treats 0
durationFromWpm(words, w) ==
  LET r == MathMax(Num(20), w)
  IN IF r = NaN THEN 0
     ELSE ((IF words > 1 THEN words ELSE 1) * 60000) \div r.v

\* The wall-clock history of a session:
\*   active      time spent with recState = "recording" once recording
\*               began, i.e. once startTsRef holds its instant
\*   sincePause  time since the latest pause
\*   everPaused  a pause has happened
\*   early       a pause has happened before recording began (startTsRef
\*               still 0)
\*   atPause     the elapsed time of a frame at the instant of the latest pause
\*   anchor      startTsRef and pauseOffsetRef at the latest pause
NoWall == [active |-> 0, sincePause |-> 0, everPaused |-> FALSE,
           early |-> FALSE, atPause |-> 0, anchor |-> <<0, 0>>]

\* the history after a pause in this state
WallAtPause == [wall EXCEPT !.sincePause = 0, !.everPaused = TRUE,
                            !.early = @ \/ startTs = 0,
                            !.atPause = elapsed,
                            !.anchor = <<startTs, pauseOffset>>]

(* ------------------------ the remote controller ----------------------- *)
\* remote.page       "closed" (the page is not loaded), "first" (rendered
\*                   once, the mount effect still to run) or "ready"
\* remote.hasBC      the browser of the page has BroadcastChannel
\* remote.supported  useState supported
\* remote.bc         bcRef.current holds an open channel
\* remote.mirror     useState mirror
\* remote.posted     the messages posted on the channel, in order
\* remote.tried      send() has been called since the page was loaded
NoRemotePage ==
  [page |-> "closed", hasBC |-> TRUE, supported |-> TRUE, bc |-> FALSE,
   mirror |-> FALSE, posted |-> << >>, tried |-> FALSE]

(* ------------------------------- Init --------------------------------- *)
\* The state once the mount effects have settled: T and P4 have asked for
\* the camera (attachCamera / the camera preview effect), which was granted
\* or not; P5 asks for it only in handleStart.  P4 reads autoStart from the
\* query string and, when set, its auto-start timer is pending.
Init ==
  /\ variant \in Variants
  /\ hasMR \in BOOLEAN
  /\ mounted = TRUE
  /\ recState = "idle"
  /\ tcError = ""
  /\ downloadUrl = 0
  /\ urls = [a \in Attempts |-> NoUrl]
  /\ \E granted \in (IF variant = "P5" THEN {FALSE} ELSE BOOLEAN) :
        media = [NoMedia EXCEPT !.preview = granted]
  /\ recordedBlobs = <<>>
  /\ pc = [a \in Attempts |-> "none"]
  /\ autoStart \in (IF variant = "P4" THEN BOOLEAN ELSE {FALSE})
  /\ autoTimer = (IF autoStart THEN "idle" ELSE "off")
  /\ finishTimers = 0
  /\ permError = ""
  /\ durationRef = (IF variant = "P4" THEN durationFromWpm(FallbackWords, Num(105))
                    ELSE 0)
  /\ rafRef = (IF variant = "P4" THEN 0 ELSE 1)
  /\ rafPending = (IF variant = "P4" THEN 0 ELSE 1)
  /\ now = 1
  /\ startTs = 0
  /\ pauseOffset = 0
  /\ lastPauseStart = NULL
  /\ pausedAt = 0
  /\ sinceReset = FALSE
  /\ stopAsked = FALSE
  /\ wall = NoWall
  /\ wpm = Num(105)
  /\ fontSize = Fit
  /\ mirror = FALSE
  /\ pipPct = Num(18)
  /\ captured = [a \in Attempts |-> FirstSettings]
  /\ frameClosure = FirstSettings
  /\ pacing = [cumulativeWords |-> <<1>>, wpm |-> 105,
               frame |-> [elapsedMs |-> 0, wpm |-> 105,
                          cumulativeWords |-> <<1>>, currentLineIndex |-> 0],
               calls |-> [cumulativeWords |-> <<1>>, wpm |-> 105,
                          elapsed1 |-> 0, elapsed2 |-> 0,
                          index1 |-> 0, index2 |-> 0],
               script |-> <<"a">>,
               meta |-> [lines |-> << <<"a">> >>, wordsPerLine |-> <<1>>,
                         totalWords |-> 1, cumulativeWords |-> <<1>>]]
  /\ fontFit = [rawFontSize |-> 32, width |-> 800, maxLineWidth |-> 0,
                effectiveFontSize |-> 32]
  /\ remote = NoRemotePage

\* the next attempt number, 0 when the bound is reached
NextAttempt ==
  IF \E a \in Attempts : pc[a] = "none"
  THEN CHOOSE a \in Attempts : pc[a] = "none" /\ \A b \in 1..(a - 1) : pc[b] # "none"
  ELSE 0

(* ------------------- React effects (variants T, P5) ------------------- *)
\* The render-loop effect re-runs when drawFrame changes, i.e. when recState
\* (a useCallback dependency) changes to rs: its cleanup cancels the pending
\* frame and, in P5, also calls stopTracks() and stops the referenced
\* recorder; then a new frame is requested.  m: the media handles that the
\* handler leaves.
RenderLoopEffect(rs, m) ==
  LET changed == mounted /\ rs # recState
  IN /\ recState' = (IF mounted THEN rs ELSE recState)
     /\ media' = (IF changed /\ variant = "P5" THEN stopRef(stopTracks(m)) ELSE m)
     /\ rafPending' = (IF changed THEN CancelRaf(rafPending, rafRef) + 1
                       ELSE rafPending)
     /\ rafRef' = (IF changed THEN 1 ELSE rafRef)

\* The auto-start effect re-runs when recState changes to rs: its cleanup
\* clears the timer, and a new 700 ms timer is set when autoStart is on and
\* the state is idle.  fired: the timer callback itself is running.
AutoStartEffect(rs, fired) ==
  autoTimer' = (IF mounted /\ rs # recState
                THEN (IF autoStart /\ rs = "idle" THEN "idle" ELSE "off")
                ELSE IF fired THEN "off" ELSE autoTimer)

\* setTcError / setDownloadUrl: ignored once the component is unmounted
SetTcError(msg) == tcError' = (IF mounted THEN msg ELSE tcError)
\* (mutant: the URL that onstop has created is never stored)
SetDownloadUrl_dropped(u) == UNCHANGED downloadUrl
SetDownloadUrl(u) == downloadUrl' = (IF mounted THEN u ELSE downloadUrl)

(* ----------------------- handleStart (T, P5) -------------------------- *)
\* handleStart up to its first await.  byTimer: called by the auto-start
\* timer, else by the Start button (disabled while recording or paused).
handleStart(byTimer) ==
  /\ variant \in {"T", "P5"} /\ mounted
  /\ NextAttempt # 0
  /\ IF byTimer THEN autoTimer # "off" ELSE recState \notin {"recording", "paused"}
  /\ recState # "recording"
  /\ sinceReset' = FALSE
  /\ IF variant = "P5" /\ ~hasMR
     THEN /\ tcError' = "Recording is not supported in this browser. You can still read your script for alignment."
          /\ pc' = [pc EXCEPT ![NextAttempt] = "unsupported"]
          /\ UNCHANGED <<downloadUrl, urls, recordedBlobs, timeVars, wall>>
     ELSE /\ tcError' = ""
          /\ urls' = Revoke(urls, downloadUrl)
          /\ downloadUrl' = 0
          /\ recordedBlobs' = <<>>
          /\ startTs' = 0
          /\ pauseOffset' = 0
          /\ lastPauseStart' = NULL
          /\ pc' = [pc EXCEPT ![NextAttempt] = IF variant = "T" THEN "mic" ELSE "cam"]
          /\ wall' = NoWall
          /\ UNCHANGED pausedAt
  /\ AutoStartEffect(recState, byTimer)
  /\ UNCHANGED <<envVars, setVars, closVars, stopAsked, mounted, recState, media, autoStart,
                 p4Vars, rafVars, now>>

\* the catch block of handleStart, entered with media handles m; the message
\* is e?.message || "Unable to start recording", never empty
handleStartCatch(a, m) ==
  /\ pc' = [pc EXCEPT ![a] = "failed"]
  /\ SetTcError("Unable to start recording")
  /\ RenderLoopEffect("idle", stopMediaRecorder(stopTracks(m)))
  /\ AutoStartEffect("idle", FALSE)
  /\ UNCHANGED <<envVars, setVars, closVars, histVars, mounted, downloadUrl, urls, recordedBlobs,
                 autoStart, p4Vars, now, timeVars>>

\* P5: the camera getUserMedia of attachCamera() resolves
attachCameraResolved(a) ==
  /\ variant = "P5" /\ pc[a] = "cam"
  /\ IF mounted
     THEN /\ media' = [media EXCEPT !.cam[a] = TRUE, !.videoSrc = a]
          /\ pc' = [pc EXCEPT ![a] = "mic"]
          /\ UNCHANGED <<envVars, setVars, closVars, histVars, mounted, recState, tcError, downloadUrl,
                         urls, recordedBlobs, autoStart, autoTimer,
                         p4Vars, rafVars, now, timeVars>>
     ELSE \* videoRef.current is null: the assignment throws into the catch
          handleStartCatch(a, [media EXCEPT !.cam[a] = TRUE])

\* P5: the camera getUserMedia of attachCamera() rejects
attachCameraRejected(a) ==
  /\ variant = "P5" /\ pc[a] = "cam"
  /\ handleStartCatch(a, media)

\* the microphone getUserMedia resolves: build and start the recorder
handleStartMicResolved(a) ==
  /\ variant \in {"T", "P5"} /\ pc[a] = "mic"
  /\ IF hasMR
     THEN /\ pc' = [pc EXCEPT ![a] = "ok"]
          /\ RenderLoopEffect("recording",
                [media EXCEPT !.mic[a] = TRUE, !.rec[a] = "recording",
                              !.mediaRecorderRef = a])
          /\ AutoStartEffect("recording", FALSE)
          /\ UNCHANGED <<envVars, setVars, closVars, histVars, mounted, tcError, downloadUrl, urls,
                         recordedBlobs, autoStart, p4Vars,
                         now, timeVars>>
     ELSE \* new MediaRecorder(...) throws a ReferenceError
          handleStartCatch(a, [media EXCEPT !.mic[a] = TRUE])

\* the microphone getUserMedia rejects
handleStartMicRejected(a) ==
  /\ variant \in {"T", "P5"} /\ pc[a] = "mic"
  /\ handleStartCatch(a, media)

(* ------------------------ recorder callbacks -------------------------- *)
\* mr.ondataavailable with data: T and P5 record with a 250 ms timeslice,
\* P4 records without one and gets its only chunk when the recorder stops
mr_ondataavailable(a) ==
  /\ \/ media.rec[a] = "stopping"
     \/ media.rec[a] = "recording" /\ variant # "P4"
  /\ Len(recordedBlobs) < MaxChunks
  /\ recordedBlobs' = Append(recordedBlobs, a)
  /\ UNCHANGED <<envVars, setVars, closVars, histVars, mounted, recState, tcError, downloadUrl, urls,
                 media, pc, autoStart, autoTimer, p4Vars,
                 rafVars, now, timeVars>>

\* mr.onstop of the recorders of T and P5
mr_onstop(a) ==
  /\ variant \in {"T", "P5"}
  /\ media.rec[a] = "stopping"
  /\ urls' = Create(urls, a)
  /\ SetDownloadUrl(a)
  /\ LET m1 == [media EXCEPT !.rec[a] = "inactive", !.mic[a] = FALSE]
     IN RenderLoopEffect("finished",
                         IF variant = "P5" THEN stopTracks(m1) ELSE m1)
  /\ AutoStartEffect("finished", FALSE)
  /\ stopAsked' = FALSE
  /\ UNCHANGED <<envVars, setVars, closVars, sinceReset, wall, mounted, tcError, recordedBlobs, pc,
                 autoStart, p4Vars, now, timeVars>>

\* the recorder reports an error or its input stream ends: the browser
\* inactivates it and queues its stop event
RecorderFails(a) ==
  /\ Active(media.rec[a])
  /\ media' = RecorderStop(media, a)
  /\ UNCHANGED <<envVars, setVars, closVars, histVars, mounted, recState, tcError, downloadUrl, urls,
                 recordedBlobs, pc, autoStart, autoTimer,
                 p4Vars, rafVars, now, timeVars>>

(* ------------------------ controls (T, P5) ---------------------------- *)
\* Pause/Resume button (disabled while idle or finished)
handlePauseResume ==
  /\ variant \in {"T", "P5"} /\ mounted
  /\ recState \in {"recording", "paused"}
  /\ LET r == media.mediaRecorderRef
     IN IF r = 0 \/ ~Active(media.rec[r])
        THEN \* early return, or pause()/resume() throws InvalidStateError
             UNCHANGED vars
        ELSE /\ IF recState = "recording"
                THEN /\ RenderLoopEffect("paused", [media EXCEPT !.rec[r] = "paused"])
                     /\ AutoStartEffect("paused", FALSE)
                     /\ lastPauseStart' = now
                     /\ wall' = WallAtPause
                     /\ UNCHANGED <<startTs, pauseOffset, pausedAt>>
                ELSE /\ RenderLoopEffect("recording", [media EXCEPT !.rec[r] = "recording"])
                     /\ AutoStartEffect("recording", FALSE)
                     /\ pauseOffset' = (IF lastPauseStart # NULL
                                        THEN pauseOffset + (now - lastPauseStart)
                                        ELSE pauseOffset)
                     /\ lastPauseStart' = NULL
                     /\ UNCHANGED <<startTs, pausedAt, wall>>
             /\ UNCHANGED <<envVars, setVars, closVars, sinceReset, stopAsked, mounted, tcError, downloadUrl, urls,
                            recordedBlobs, pc, autoStart,
                            p4Vars, now>>

\* T: Stop button (disabled unless recording or paused)
handleStopT ==
  /\ variant = "T" /\ mounted
  /\ recState \in {"recording", "paused"}
  /\ media' = (IF media.mediaRecorderRef = 0 THEN media
               ELSE stopMediaRecorder(media))
  /\ stopAsked' = TRUE
  /\ UNCHANGED <<envVars, setVars, closVars, sinceReset, wall, mounted, recState, tcError, downloadUrl, urls,
                 recordedBlobs, pc, autoStart, autoTimer,
                 p4Vars, rafVars, now, timeVars>>

\* P5: Stop button (disabled unless recording or paused)
handleStopP5 ==
  /\ variant = "P5" /\ mounted
  /\ recState \in {"recording", "paused"}
  /\ IF media.mediaRecorderRef = 0
     THEN /\ RenderLoopEffect("finished", stopTracks(media))
          /\ AutoStartEffect("finished", FALSE)
     ELSE /\ RenderLoopEffect(recState, stopMediaRecorder(media))
          /\ AutoStartEffect(recState, FALSE)
  /\ stopAsked' = TRUE
  /\ UNCHANGED <<envVars, setVars, closVars, sinceReset, wall, mounted, tcError, downloadUrl, urls, recordedBlobs,
                 pc, autoStart, p4Vars, now, timeVars>>

\* T: "New session" button (always enabled)
handleResetRecordingT ==
  /\ variant = "T" /\ mounted
  /\ urls' = Revoke(urls, downloadUrl)
  /\ downloadUrl' = 0
  /\ tcError' = ""
  /\ recordedBlobs' = <<>>
  /\ startTs' = 0
  /\ pauseOffset' = 0
  /\ lastPauseStart' = NULL
  /\ RenderLoopEffect("idle", media)
  /\ AutoStartEffect("idle", FALSE)
  /\ sinceReset' = TRUE
  /\ wall' = NoWall
  /\ UNCHANGED <<envVars, setVars, closVars, stopAsked, mounted, pc, autoStart, p4Vars, now,
                 pausedAt>>

\* P5: "New session" / "Re-Record" button (always enabled)
handleResetRecordingP5 ==
  /\ variant = "P5" /\ mounted
  /\ urls' = Revoke(urls, downloadUrl)
  /\ downloadUrl' = 0
  /\ tcError' = ""
  /\ recordedBlobs' = <<>>
  /\ startTs' = 0
  /\ pauseOffset' = 0
  /\ lastPauseStart' = NULL
  /\ RenderLoopEffect("idle", stopTracks(stopRef(media)))
  /\ AutoStartEffect("idle", FALSE)
  /\ sinceReset' = TRUE
  /\ wall' = NoWall
  /\ UNCHANGED <<envVars, setVars, closVars, stopAsked, mounted, pc, autoStart, p4Vars, now,
                 pausedAt>>

\* "Auto start" toggle of the settings panel
ToggleAutoStart ==
  /\ variant \in {"T", "P5"} /\ mounted
  /\ autoStart' = ~autoStart
  /\ autoTimer' = (IF autoStart' /\ recState = "idle" THEN "idle" ELSE "off")
  /\ UNCHANGED <<envVars, setVars, closVars, histVars, mounted, recState, tcError, downloadUrl, urls,
                 media, recordedBlobs, pc, p4Vars, rafVars,
                 now, timeVars>>

(* ------------------------ render loop (T, P5) ------------------------- *)
\* one animation frame: the timing part of drawFrame and its rescheduling
drawFrame ==
  /\ variant \in {"T", "P5"} /\ mounted
  /\ rafPending > 0
  /\ startTs' = (IF recState = "recording" /\ startTs = 0 THEN now ELSE startTs)
  /\ lastPauseStart' = (IF recState = "paused" /\ startTs # 0
                           /\ lastPauseStart = NULL
                        THEN now ELSE lastPauseStart)
  /\ rafRef' = 1
  /\ UNCHANGED <<envVars, setVars, closVars, histVars, mounted, recState, tcError, downloadUrl, urls,
                 media, recordedBlobs, pc, autoStart, autoTimer,
                 p4Vars, rafPending, now, pauseOffset, pausedAt>>

(* ----------------------------- teardown ------------------------------- *)
\* T: the page unmounts; the effect cleanups cancel the frame and the timer
UnmountT ==
  /\ variant = "T" /\ mounted
  /\ mounted' = FALSE
  /\ rafPending' = CancelRaf(rafPending, rafRef)
  /\ rafRef' = 0
  /\ autoTimer' = "off"
  /\ UNCHANGED <<envVars, setVars, closVars, histVars, recState, tcError, downloadUrl, urls, media,
                 recordedBlobs, pc, autoStart, p4Vars,
                 now, timeVars>>

\* P5: the page unmounts, either by the header button (which calls
\* stopTracks() and then navigates) or by any other navigation.  The video
\* element's ref is already detached when the effect cleanup runs, so the
\* stopTracks() of the cleanup finds no element.
UnmountP5(byButton) ==
  /\ variant = "P5" /\ mounted
  /\ mounted' = FALSE
  /\ rafPending' = CancelRaf(rafPending, rafRef)
  /\ rafRef' = 0
  /\ autoTimer' = "off"
  /\ media' = stopRef(IF byButton THEN stopTracks(media) ELSE media)
  /\ UNCHANGED <<envVars, setVars, closVars, histVars, recState, tcError, downloadUrl, urls,
                 recordedBlobs, pc, autoStart, p4Vars,
                 now, timeVars>>

(* ===================== countdown variant (P4) ========================= *)
\* P4's handlers are plain functions rebuilt on every render: a button uses
\* the handler of the current render, while the BroadcastChannel listener
\* (set once, on mount) keeps the handlers of the first render, whose
\* recState is "idle", and the auto-start timer keeps those of the render
\* that set it.
Closure(src) ==
  CASE src = "button" -> recState
    [] src = "timer"  -> autoTimer
    [] src = "remote" -> "idle"

\* the settings of the render that src's handlers come from (the timer is
\* set by the first render)
ClosureSettings(src) == IF src = "button" THEN Settings ELSE FirstSettings

\* handleStart up to the countdown.  The Start button is in the controls
\* drawer, which is rendered unless the state is recording or paused.
handleStartP4(src) ==
  /\ variant = "P4"
  /\ CASE src = "button" -> mounted /\ recState \notin {"recording", "paused"}
       [] src = "timer"  -> autoTimer # "off"
       [] src = "remote" -> mounted
  /\ autoTimer' = (IF src = "timer" THEN "off" ELSE autoTimer)
  /\ IF Closure(src) # "idle"
     THEN UNCHANGED <<recState, tcError, permError, downloadUrl, urls, pc>>
     ELSE /\ NextAttempt # 0
          /\ urls' = Revoke(urls, downloadUrl)
          /\ downloadUrl' = 0
          /\ tcError' = ""
          /\ permError' = ""
          /\ recState' = "countdown"
          /\ pc' = [pc EXCEPT ![NextAttempt] = "countdown"]
  /\ captured' = (IF Closure(src) # "idle" THEN captured
                  ELSE [captured EXCEPT ![NextAttempt] = ClosureSettings(src)])
  /\ sinceReset' = (Closure(src) # "idle" /\ sinceReset)
  /\ wall' = (IF Closure(src) # "idle" THEN wall ELSE NoWall)
  /\ UNCHANGED <<envVars, setVars, frameClosure, stopAsked, mounted, media,
                 recordedBlobs, autoStart, finishTimers, durationRef, rafVars,
                 now, timeVars>>

\* the three one-second waits are over: setRecState("recording") and
\* startRecording() up to its microphone getUserMedia
countdownDone(a) ==
  /\ variant = "P4" /\ pc[a] = "countdown"
  /\ recState' = (IF mounted THEN "recording" ELSE recState)
  /\ media' = (IF media.micStreamRef = 0 THEN media
               ELSE [media EXCEPT !.mic[media.micStreamRef] = FALSE,
                                  !.micStreamRef = 0])
  /\ pc' = [pc EXCEPT ![a] = "mic"]
  /\ UNCHANGED <<envVars, setVars, closVars, histVars, mounted, tcError, downloadUrl, urls, recordedBlobs, autoStart, autoTimer, p4Vars, rafVars, now,
                 timeVars>>

\* startRecording(): the microphone getUserMedia resolves
startRecordingMicResolved(a) ==
  /\ variant = "P4" /\ pc[a] = "mic"
  /\ IF mounted /\ hasMR
     THEN /\ media' = [media EXCEPT !.mic[a] = TRUE, !.micStreamRef = a,
                                    !.rec[a] = "recording",
                                    !.mediaRecorderRef = a]
          /\ recordedBlobs' = <<>>
          /\ startTs' = now
          /\ pausedAt' = 0
          /\ rafRef' = 1
          /\ rafPending' = rafPending + 1
          /\ pc' = [pc EXCEPT ![a] = "ok"]
          /\ frameClosure' = captured[a]
          /\ UNCHANGED <<pauseOffset, lastPauseStart>>
     ELSE \* canvasRef.current is null after unmount, or new MediaRecorder
          \* throws: startRecording rejects and nobody handles it
          /\ media' = [media EXCEPT !.mic[a] = TRUE, !.micStreamRef = a]
          /\ recordedBlobs' = (IF mounted THEN <<>> ELSE recordedBlobs)
          /\ pc' = [pc EXCEPT ![a] = "failed"]
          /\ UNCHANGED <<rafVars, timeVars, frameClosure>>
  /\ UNCHANGED <<envVars, setVars, captured, histVars, mounted, recState, tcError, downloadUrl, urls, autoStart, autoTimer, p4Vars, now>>

\* startRecording(): the microphone getUserMedia rejects; the error is
\* rethrown out of handleStart and nobody handles it
startRecordingMicRejected(a) ==
  /\ variant = "P4" /\ pc[a] = "mic"
  /\ permError' = (IF mounted THEN "Unable to access selected microphone."
                   ELSE permError)
  /\ pc' = [pc EXCEPT ![a] = "failed"]
  /\ UNCHANGED <<envVars, setVars, closVars, histVars, mounted, recState, tcError, downloadUrl, urls,
                 media, recordedBlobs, autoStart, autoTimer,
                 finishTimers, durationRef, rafVars, now, timeVars>>

\* mr.onstop of the recorders of P4
mr_onstopP4(a) ==
  /\ variant = "P4"
  /\ media.rec[a] = "stopping"
  /\ media' = [media EXCEPT !.rec[a] = "inactive"]
  /\ urls' = Create(IF mounted THEN Revoke(urls, downloadUrl) ELSE urls, a)
  /\ SetDownloadUrl(a)
  /\ UNCHANGED <<envVars, setVars, closVars, histVars, mounted, recState, tcError, recordedBlobs, pc, autoStart, autoTimer, p4Vars, rafVars, now,
                 timeVars>>

\* startTsRef.current = performance.now() - pausedAtRef.current
\* (mutant: the time recorded at the pause is not taken off)
resumedStartTs_unshifted(t, p) == t
resumedStartTs(t, p) == t - p

\* handlePauseResume, from the HUD button (rendered while recording or
\* paused) or from a remote "pauseResume" message
handlePauseResumeP4(src) ==
  /\ variant = "P4" /\ mounted
  /\ src \in {"button", "remote"}
  /\ src = "button" => recState \in {"recording", "paused"}
  /\ LET r == media.mediaRecorderRef
     IN CASE Closure(src) = "recording" ->
               /\ recState' = "paused"
               /\ pausedAt' = now - startTs
               /\ rafPending' = CancelRaf(rafPending, rafRef)
               /\ rafRef' = 0
               /\ media' = (IF r # 0 /\ media.rec[r] = "recording"
                            THEN [media EXCEPT !.rec[r] = "paused"]
                            ELSE media)
               /\ wall' = WallAtPause
               /\ UNCHANGED <<startTs, frameClosure>>
          [] Closure(src) = "paused" ->
               /\ recState' = "recording"
               /\ startTs' = resumedStartTs(now, pausedAt)
               /\ rafRef' = 1
               /\ rafPending' = rafPending + 1
               /\ frameClosure' = ClosureSettings(src)
               /\ UNCHANGED <<media, pausedAt, wall>>
          [] OTHER ->
               UNCHANGED <<recState, media, rafVars, startTs, pausedAt, wall,
                           frameClosure>>
  /\ UNCHANGED <<envVars, setVars, captured, sinceReset, stopAsked, mounted, tcError, downloadUrl, urls, recordedBlobs,
                 pc, autoStart, autoTimer, p4Vars, now, pauseOffset,
                 lastPauseStart>>

\* stopRecording()
stopRecording(m) == stopRef(m)

\* handleFinish, from the HUD button or from a remote "finish" message,
\* with the setTimeout that its continuation sets
handleFinish(src) ==
  /\ variant = "P4" /\ mounted
  /\ src \in {"button", "remote"}
  /\ src = "button" => recState \in {"recording", "paused"}
  /\ finishTimers < MaxTimers
  /\ recState' = "finishing"
  /\ rafPending' = CancelRaf(rafPending, rafRef)
  /\ rafRef' = 0
  /\ media' = stopRecording(media)
  /\ finishTimers' = finishTimers + 1
  /\ UNCHANGED <<envVars, setVars, closVars, histVars, mounted, tcError, permError, downloadUrl, urls,
                 recordedBlobs, pc, autoStart, autoTimer, durationRef, now,
                 timeVars>>

\* the 300 ms timer of handleFinish fires
finishTimerFires ==
  /\ variant = "P4" /\ finishTimers > 0
  /\ finishTimers' = finishTimers - 1
  /\ recState' = (IF mounted THEN "idle" ELSE recState)
  /\ UNCHANGED <<envVars, setVars, closVars, histVars, mounted, tcError, permError, downloadUrl, urls,
                 media, recordedBlobs, pc, autoStart, autoTimer,
                 durationRef, rafVars, now, timeVars>>

\* "New session" button: in the drawer, rendered when a download exists
handleNewSession ==
  /\ variant = "P4" /\ mounted
  /\ recState \notin {"recording", "paused"} /\ downloadUrl # 0
  /\ urls' = Revoke(urls, downloadUrl)
  /\ downloadUrl' = 0
  /\ tcError' = ""
  /\ recordedBlobs' = <<>>
  /\ startTs' = 0
  /\ durationRef' = 0
  /\ recState' = "idle"
  /\ sinceReset' = TRUE
  /\ wall' = NoWall
  /\ UNCHANGED <<envVars, setVars, closVars, stopAsked, mounted, permError, media, pc, autoStart,
                 autoTimer, finishTimers, rafVars, now, pauseOffset,
                 lastPauseStart, pausedAt>>

\* one animation frame of layoutAndDraw, which reschedules itself; after
\* unmount canvasRef.current is null and the callback throws
\* (own: the frame is the one whose handle rafRef.current holds)
layoutAndDraw(own) ==
  /\ variant = "P4"
  /\ rafPending > (IF own THEN 0 ELSE rafRef) /\ (own => rafRef = 1)
  /\ IF mounted
     THEN /\ rafRef' = 1
          /\ UNCHANGED rafPending
     ELSE /\ rafPending' = rafPending - 1
          /\ rafRef' = (IF own THEN 0 ELSE rafRef)
  /\ UNCHANGED <<envVars, setVars, closVars, histVars, mounted, recState, tcError, downloadUrl, urls,
                 media, recordedBlobs, pc, autoStart, autoTimer,
                 p4Vars, now, timeVars>>

\* P4: the page unmounts; its effect cleanups close the channel and clear
\* the auto-start timer, nothing else
UnmountP4 ==
  /\ variant = "P4" /\ mounted
  /\ mounted' = FALSE
  /\ autoTimer' = "off"
  /\ UNCHANGED <<envVars, setVars, closVars, histVars, recState, tcError, downloadUrl, urls, media,
                 recordedBlobs, pc, autoStart, p4Vars, rafVars, now,
                 timeVars>>

(* ------------------------------ Next ---------------------------------- *)
\* the steps of variants T and P5
NextTP ==
  \/ \E t \in BOOLEAN : handleStart(t)
  \/ \E a \in Attempts : attachCameraResolved(a)
  \/ \E a \in Attempts : attachCameraRejected(a)
  \/ \E a \in Attempts : handleStartMicResolved(a)
  \/ \E a \in Attempts : handleStartMicRejected(a)
  \/ \E a \in Attempts : mr_ondataavailable(a)
  \/ \E a \in Attempts : mr_onstop(a)
  \/ \E a \in Attempts : RecorderFails(a)
  \/ handlePauseResume
  \/ handleStopT
  \/ handleStopP5
  \/ handleResetRecordingT
  \/ handleResetRecordingP5
  \/ ToggleAutoStart
  \/ drawFrame
  \/ UnmountT
  \/ \E b \in BOOLEAN : UnmountP5(b)

\* the steps that only variant P4 takes
NextP4 ==
  \/ \E src \in {"button", "timer", "remote"} : handleStartP4(src)
  \/ \E a \in Attempts : countdownDone(a)
  \/ \E a \in Attempts : startRecordingMicResolved(a)
  \/ \E a \in Attempts : startRecordingMicRejected(a)
  \/ \E a \in Attempts : mr_onstopP4(a)
  \/ \E src \in {"button", "remote"} : handlePauseResumeP4(src)
  \/ \E src \in {"button", "remote"} : handleFinish(src)
  \/ finishTimerFires
  \/ handleNewSession
  \/ \E own \in BOOLEAN : layoutAndDraw(own)
  \/ UnmountP4

Next == NextTP \/ NextP4

Spec == Init /\ [][Next]_vars

\* Variants T and P5 alone, with every queued recorder stop event eventually
\* delivered: the browser runs a queued task, and mr.onstop stays enabled
\* from the moment the recorder becomes inactive until it has run.
InitTP == Init /\ variant \in {"T", "P5"}
SpecStopDelivered ==
  /\ InitTP /\ [][NextTP]_vars
  /\ \A a \in Attempts : WF_vars(mr_onstop(a))

(* ============================== claims ================================ *)
\* steps taken by the handler of the current render (button), per variant
PauseResumeStep == handlePauseResume \/ handlePauseResumeP4("button")

\* C1: pauseResume toggles the capture state.  Invoked while the state is
\* recording and the referenced recorder is active, it leaves the recorder
\* paused and the state paused; invoked while the state is paused and the
\* referenced recorder is paused, it leaves the recorder recording and the
\* state recording; it never leaves any state but recording or paused.
C1_PauseResumeToggles ==
  [][PauseResumeStep =>
       LET r == media.mediaRecorderRef
       IN /\ (recState = "recording" /\ r # 0 /\ Active(media.rec[r]))
                => (recState' = "paused" /\ media'.rec[r] = "paused")
          /\ (recState = "paused" /\ r # 0 /\ media.rec[r] = "paused")
                => (recState' = "recording" /\ media'.rec[r] = "recording")
          /\ recState' \in {"recording", "paused"}]_vars

\* a device request of attempt a's handleStart is rejected (T, P5)
StartRejectedStep(a) == handleStartMicRejected(a) \/ attachCameraRejected(a)

\* C2: when the camera or microphone request of a handleStart is rejected
\* while the page is mounted, the handler leaves the state idle, a non-empty
\* error message, no referenced recorder and no live stream of that attempt.
C2_RejectedStartCleansUp ==
  [][\A a \in Attempts :
        (mounted /\ StartRejectedStep(a)) =>
           /\ recState' = "idle"
           /\ tcError' # ""
           /\ media'.mediaRecorderRef = 0
           /\ ~media'.cam[a] /\ ~media'.mic[a]]_vars

\* the recorders that are recording or paused
ActiveRecorders == {a \in Attempts : Active(media.rec[a])}

\* C3: in every reachable state at most one MediaRecorder is active
\* (recording or paused).
C3_AtMostOneActiveRecorder == Cardinality(ActiveRecorders) <= 1

\* a handleStart of T or P5 is suspended in a device request
StartInFlight == \E a \in Attempts : pc[a] \in {"cam", "mic"}

\* C4: while a start attempt is in flight, a handleStart call from the Start
\* button or from the auto-start timer begins no further attempt.
C4_NoSecondStartInFlight ==
  [][\A t \in BOOLEAN : (StartInFlight /\ handleStart(t)) => pc' = pc]_vars

\* a reset handler runs ("New session" / "Re-Record")
ResetStep == handleResetRecordingT \/ handleResetRecordingP5 \/ handleNewSession

\* a recorder callback is delivered
RecorderCallbackStep ==
  \E a \in Attempts : mr_ondataavailable(a) \/ mr_onstop(a) \/ mr_onstopP4(a)

\* C5: reset leaves the state idle, the artifact URL revoked and empty, the
\* chunk buffer empty and the timing anchor cleared; and from then until the
\* next handleStart, a recorder callback delivered while the state is idle
\* with no artifact URL leaves it idle with no artifact URL.
C5_ResetClearsAndStaysIdle ==
  [][/\ ResetStep =>
          /\ recState' = "idle"
          /\ downloadUrl' = 0
          /\ downloadUrl # 0 => urls'[downloadUrl].revoked = 1
          /\ recordedBlobs' = <<>>
          /\ startTs' = 0
     /\ (sinceReset /\ recState = "idle" /\ downloadUrl = 0
           /\ RecorderCallbackStep)
          => (recState' = "idle" /\ downloadUrl' = 0)]_vars

\* the page is finished and exposes one live artifact URL, built from the
\* chunks in the buffer
FinishedWithArtifact ==
  /\ recState = "finished"
  /\ downloadUrl # 0
  /\ urls[downloadUrl].made /\ urls[downloadUrl].revoked = 0
  /\ urls[downloadUrl].chunks = recordedBlobs

\* C6 (T, P5): after handleStop has run while the state is recording or
\* paused, and provided the recorder's stop event is delivered, the page
\* (as long as it stays mounted) reaches the state finished with one live
\* artifact URL built from the buffered chunks.
C6_StopLeadsToFinished ==
  stopAsked ~> (FinishedWithArtifact \/ ~mounted)

\* C6 witness: Stop has been pressed on a mounted page that is recording or
\* paused, chunks are buffered and the recorder's stop event is pending
C6_StopPending ==
  /\ stopAsked /\ mounted
  /\ recState \in {"recording", "paused"}
  /\ recordedBlobs # <<>>
  /\ \E a \in Attempts : media.rec[a] = "stopping"

\* the session of attempt a is finished: its recorder ran and its stop event
\* has been handled, and the page shows finished (P4: is back to idle)
SessionFinished(a) ==
  /\ mounted
  /\ pc[a] = "ok" /\ media.rec[a] = "inactive"
  /\ \/ recState = "finished"
     \/ variant = "P4" /\ recState = "idle"

\* C7: once a session is finished, every camera track and every microphone
\* track acquired for it has been stopped.
C7_FinishedSessionReleasesTracks ==
  \A a \in Attempts : SessionFinished(a) => (~media.cam[a] /\ ~media.mic[a])

\* the page is torn down
UnmountStep == UnmountT \/ UnmountP4 \/ \E b \in BOOLEAN : UnmountP5(b)

\* C8: tearing the page down leaves no pending animation frame, no active
\* recorder and no live camera or microphone track.
C8_UnmountReleasesEverything ==
  [][UnmountStep =>
       /\ rafPending' = 0
       /\ ActiveRecorders' = {}
       /\ ~media'.preview
       /\ \A a \in Attempts : ~media'.cam[a] /\ ~media'.mic[a]]_vars

\* the artifact URLs created and not revoked
LiveUrls == {a \in Attempts : urls[a].made /\ urls[a].revoked = 0}

\* C9: while the page is mounted at most one artifact URL is un-revoked, no
\* URL is revoked twice, and every created URL that is no longer the
\* current downloadUrl (replaced or discarded) has been revoked once.
C9_UrlsRevokedExactlyOnce ==
  mounted =>
    /\ Cardinality(LiveUrls) <= 1
    /\ \A a \in Attempts :
          /\ urls[a].revoked <= 1
          /\ (urls[a].made /\ downloadUrl # a) => urls[a].revoked = 1

\* a stop/finish or pauseResume handler runs, from a button or from the
\* remote control
StopOrPauseStep ==
  \/ handleStopT \/ handleStopP5 \/ handlePauseResume
  \/ \E src \in {"button", "remote"} : handleFinish(src)
  \/ \E src \in {"button", "remote"} : handlePauseResumeP4(src)

\* C10: while the state is idle or finished and no recorder is active,
\* stop/finish and pauseResume change neither the capture state, nor the
\* artifact URL, nor the buffered chunks, nor the device streams.
C10_StopIsNoOpWhenNotRecording ==
  [][(recState \in {"idle", "finished"} /\ ActiveRecorders = {}
        /\ StopOrPauseStep)
       => UNCHANGED <<recState, downloadUrl, urls, recordedBlobs, media>>]_vars

\* the auto-start timer invokes handleStart
TimerStartStep ==
  handleStart(TRUE) \/ (handleStartP4("timer") /\ Closure("timer") = "idle")

\* C11: the auto-start timer invokes start only while the state is idle and
\* only when no start, manual or automatic, has been made since page load.
C11_AutoStartOnlyOnce ==
  [][TimerStartStep => (recState = "idle" /\ pc[1] = "none")]_vars

(* ====================== the clock and elapsed time ==================== *)
MaxNow == 5         \* performance.now() runs from 1 to MaxNow

\* one unit of wall-clock time passes
Tick ==
  /\ now < MaxNow
  /\ now' = now + 1
  /\ wall' = [wall EXCEPT !.active = IF recState = "recording" /\ startTs # 0
                                      THEN @ + 1 ELSE @,
                          !.sincePause = @ + 1]
  /\ UNCHANGED <<envVars, setVars, closVars, sinceReset, stopAsked, mounted, recState, tcError,
                 downloadUrl, urls, media, recordedBlobs, pc, autoStart,
                 autoTimer, p4Vars, rafVars, timeVars>>

\* A page with MediaRecorder and without auto-start, driven by its Start and
\* Pause/Resume buttons while the clock runs.
InitClock == Init /\ hasMR /\ ~autoStart

NextClock ==
  \/ Tick
  \/ handleStart(FALSE)
  \/ \E a \in Attempts : attachCameraResolved(a)
  \/ \E a \in Attempts : handleStartMicResolved(a)
  \/ \E a \in Attempts : mr_onstop(a)
  \/ handlePauseResume
  \/ drawFrame
  \/ handleStartP4("button")
  \/ \E a \in Attempts : countdownDone(a)
  \/ \E a \in Attempts : startRecordingMicResolved(a)
  \/ handlePauseResumeP4("button")
  \/ \E own \in BOOLEAN : layoutAndDraw(own)

SpecClock == InitClock /\ [][NextClock]_vars

\* C12: a frame that runs while recording computes, as elapsed time, the
\* wall-clock time since recording began (the instant that the first
\* recording frame put in startTsRef) minus the time spent paused since, that
\* is, the time spent recording; for every pause and resume made after
\* recording began.
C12_ElapsedExcludesPauses ==
  (variant \in {"T", "P5"} /\ recState = "recording" /\ startTs # 0
      /\ ~wall.early)
     => elapsed = wall.active

\* the Pause/Resume button resumes a paused session
ResumeStep ==
  /\ handlePauseResume \/ handlePauseResumeP4("button")
  /\ recState = "paused" /\ recState' = "recording"

\* C13: when a session is resumed at the very instant it was paused (no time
\* has passed and nothing has moved the timing refs in between), a frame
\* computes the elapsed time that a frame computed just before the pause, and
\* the timing refs that every later recording frame reads are those of
\* before the pause: what they are had the session never been paused.
C13_ImmediateResumeKeepsElapsed ==
  [][(ResumeStep /\ wall.everPaused /\ wall.sincePause = 0
         /\ wall.anchor = <<startTs, pauseOffset>>)
        => (elapsed' = wall.atPause /\ <<startTs', pauseOffset'>> = wall.anchor)]_vars

\* a session with one start, resumed at the instant of its pause, after some
\* recording time
C13_ResumedAtOnce ==
  /\ pc[2] = "none" /\ recState = "recording"
  /\ wall.everPaused /\ wall.sincePause = 0
  /\ wall.anchor = <<startTs, pauseOffset>>
  /\ wall.atPause > 0 /\ elapsed = wall.atPause

\* an animation frame runs
FrameStep == drawFrame \/ \E own \in BOOLEAN : layoutAndDraw(own)

\* C14: every frame that runs while the state is paused computes the elapsed
\* time of the pause instant, whatever time has passed, and on resume the
\* elapsed time goes on from that value.
C14_PausedElapsedFrozen ==
  [][/\ (FrameStep /\ recState = "paused" /\ wall.everPaused)
           => elapsed = wall.atPause
     /\ (ResumeStep /\ wall.everPaused) => elapsed' = wall.atPause]_vars

\* the stop event of attempt a's recorder is handled
StopEventStep(a) == mr_onstop(a) \/ mr_onstopP4(a)

\* C15: when a recorder stops without a handler having asked for it (an
\* error, or its input ended: mediaRecorderRef still holds it) while the
\* state is recording or paused, handling its stop event takes the session
\* out of recording/paused with that attempt's tracks released.
C15_FailedRecorderEndsSession ==
  [][\A a \in Attempts :
       (/\ StopEventStep(a) /\ mounted
        /\ media.mediaRecorderRef = a
        /\ recState \in {"recording", "paused"})
          => (/\ recState' \notin {"recording", "paused"}
              /\ ~media'.mic[a] /\ ~media'.cam[a])]_vars

\* C16: in P4, when the microphone request of startRecording rejects, the
\* start is given up: the state is idle, an error message is set, no recorder
\* of the attempt is active and no animation frame is pending.
C16_MicFailureAbortsStart ==
  [][\A a \in Attempts :
       (startRecordingMicRejected(a) /\ mounted)
          => (/\ recState' = "idle"
              /\ permError' # ""
              /\ ~Active(media'.rec[a])
              /\ rafPending' = 0)]_vars

\* a remote "pauseResume" message is handled
RemotePauseResumeStep == handlePauseResumeP4("remote")

\* C17: a remote pauseResume message handled while the page is recording
\* moves it to paused with the referenced recorder paused, and one handled
\* while it is paused moves it back to recording.  (The handler is
\* deterministic: what it can do is what it does.)
C17_RemotePauseResumeToggles ==
  (variant = "P4" /\ mounted) =>
     /\ recState = "recording" =>
          ENABLED (/\ RemotePauseResumeStep
                   /\ recState' = "paused"
                   /\ \A a \in Attempts :
                        (media.mediaRecorderRef = a /\ media.rec[a] = "recording")
                           => media'.rec[a] = "paused")
     /\ recState = "paused" =>
          ENABLED (RemotePauseResumeStep /\ recState' = "recording")

(* ============================ settings (P4) =========================== *)
\* numbers that a message or an input field carries
PayloadNums == {-5, 0, 30, 300}
\* message payloads: numbers (NaN among them) and booleans
Payloads == {Num(n) : n \in PayloadNums} \cup {Bool(TRUE), Bool(FALSE), NaN}
\* everything but the settings
pageVars == <<envVars, closVars, histVars, mounted, recState, tcError,
              downloadUrl, urls, media, recordedBlobs, pc, autoStart,
              autoTimer, p4Vars, rafVars, now, timeVars>>

\* bc.onmessage, type "speed"
RemoteSpeed(p) ==
  /\ variant = "P4" /\ mounted
  /\ wpm' = Clamp(20, 260, OrElse(p, wpm))
  /\ durationRef' = (IF wpm' # wpm THEN durationFromWpm(FallbackWords, wpm')
                     ELSE durationRef)
  /\ UNCHANGED <<envVars, closVars, histVars, mounted, recState, tcError,
                 downloadUrl, urls, media, recordedBlobs, pc, autoStart,
                 autoTimer, finishTimers, permError, rafVars, now, timeVars,
                 fontSize, mirror, pipPct>>

\* bc.onmessage, type "font"
RemoteFont(p) ==
  /\ variant = "P4" /\ mounted
  /\ fontSize' = Clamp(28, 96, OrElse(p, IF fontSize.t \in {"num", "nan"}
                                         THEN fontSize ELSE Num(48)))
  /\ UNCHANGED <<pageVars, wpm, mirror, pipPct>>

\* bc.onmessage, type "mirror"
RemoteMirror(p) ==
  /\ variant = "P4" /\ mounted
  /\ mirror' = Truthy(p)
  /\ UNCHANGED <<pageVars, wpm, fontSize, pipPct>>

\* bc.onmessage, type "pip"
RemotePip(p) ==
  /\ variant = "P4" /\ mounted
  /\ pipPct' = Clamp(10, 35, OrElse(p, pipPct))
  /\ UNCHANGED <<pageVars, wpm, fontSize, mirror>>

\* The controls drawer is rendered unless the state is recording or paused.
\* Font select: "fit" or one of the offered sizes
UiSetFont(o) ==
  /\ variant = "P4" /\ mounted /\ recState \notin {"recording", "paused"}
  /\ fontSize' = (IF o = Fit THEN Fit ELSE Clamp(28, 96, o))
  /\ UNCHANGED <<pageVars, wpm, mirror, pipPct>>

\* Mirror checkbox
UiSetMirror ==
  /\ variant = "P4" /\ mounted /\ recState \notin {"recording", "paused"}
  /\ mirror' = ~mirror
  /\ UNCHANGED <<pageVars, wpm, fontSize, pipPct>>

\* "Webcam size" input: parseInt(e.target.value || "18", 10), which is an
\* integer, or NaN for an input such as ".5"
UiSetPip(x) ==
  /\ variant = "P4" /\ mounted /\ recState \notin {"recording", "paused"}
  /\ pipPct' = x
  /\ UNCHANGED <<pageVars, wpm, fontSize, mirror>>

\* The controlled page as the remote drives its settings.
InitP4 == Init /\ variant = "P4" /\ hasMR /\ ~autoStart
NextRemote ==
  \/ \E p \in Payloads : RemoteSpeed(p)
  \/ \E p \in Payloads : RemoteFont(p)
  \/ \E p \in Payloads : RemoteMirror(p)
  \/ \E p \in Payloads : RemotePip(p)
SpecRemote == InitP4 /\ [][NextRemote]_vars

\* The controlled page with its settings changed from the drawer and by the
\* remote, while a session is started, paused and resumed; with a few of the
\* payloads and of the drawer's inputs.
FewPayloads == {Num(30), Bool(TRUE), Bool(FALSE)}
NextSettings ==
  \/ \E p \in FewPayloads : RemoteFont(p)
  \/ \E p \in FewPayloads : RemoteMirror(p)
  \/ \E p \in FewPayloads : RemotePip(p)
  \/ \E o \in {Num(36), Fit} : UiSetFont(o)
  \/ UiSetMirror
  \/ \E x \in {Num(18), NaN} : UiSetPip(x)
  \/ handleStartP4("button")
  \/ \E a \in Attempts : countdownDone(a)
  \/ \E a \in Attempts : startRecordingMicResolved(a)
  \/ handlePauseResumeP4("button")
  \/ layoutAndDraw(TRUE)
SpecSettings == InitP4 /\ [][NextSettings]_vars

InRange(x, lo, hi) == x.t = "num" /\ lo <= x.v /\ x.v <= hi

C19_FrameUsesCurrentSettings ==
  (variant = "P4" /\ mounted /\ rafRef = 1 /\ rafPending > 0)
     => frameClosure = Settings

(* ========================= pacing (T, P5) ============================= *)
MaxLines == 3       \* lines of a script
MaxWords == 4       \* words of a script

\* Math.min(idx, cumulativeWords.length - 1)
\* (mutant: the index is returned as the loop leaves it)
minIndex_unbounded(idx, n) == idx
minIndex(idx, n) == IF idx <= n - 1 THEN idx ELSE n - 1

\* wordsSpoken = elapsedMs * (wpm / 60000) is a binary64 product of a
\* rounded quotient. Its exact value is a multiple of 1/60000, so rounding
\* can change a comparison with a whole word count only where the exact
\* value is whole. Of the (elapsedMs, wpm) pairs used in this module, these
\* are the ones whose binary64 product is below the exact value
\* (1250 * (144 / 60000) is 2.9999999999999996).
RoundedBelow == {<<1250, 144>>, <<2500, 144>>, <<10000, 144>>}

\* cumulativeWords[idx] <= wordsSpoken
\* (mutant: the elapsed time wrapped around)
wordsReached_wrapped(cw, elapsedMs, rate) ==
  cw * 60000 <= (elapsedMs % 2500) * rate
wordsReached(cw, elapsedMs, rate) ==
  \/ cw * 60000 < elapsedMs * rate
  \/ cw * 60000 = elapsedMs * rate /\ <<elapsedMs, rate>> \notin RoundedBelow

\* the while loop of findCurrentLineIndex from idx on
RECURSIVE scanLines(_, _, _, _)
scanLines(idx, elapsedMs, rate, cumulativeWords) ==
  IF idx < Len(cumulativeWords)
       /\ wordsReached(cumulativeWords[idx + 1], elapsedMs, rate)
  THEN scanLines(idx + 1, elapsedMs, rate, cumulativeWords)
  ELSE idx

\* !cumulativeWords.length || wpm <= 0
\* (mutant: the early return is never taken)
nothingToPace_never(rate, cumulativeWords) == FALSE
nothingToPace(rate, cumulativeWords) == Len(cumulativeWords) = 0 \/ rate <= 0

findCurrentLineIndex(elapsedMs, rate, cumulativeWords) ==
  IF nothingToPace(rate, cumulativeWords) THEN 0
  ELSE minIndex(scanLines(0, elapsedMs, rate, cumulativeWords),
                Len(cumulativeWords))

\* the cumulative word counts that buildLineMeta gives: every line adds at
\* least one word
CumulativeSeqs ==
  {c \in UNION {[1..n -> 1..MaxWords] : n \in 1..MaxLines} :
     \A i \in 1..(Len(c) - 1) : c[i] < c[i + 1]}
Rates == {1, 105, 150}
ElapsedValues == {0, 600, 60000, 240000}

\* the script or the rate is changed: lineMeta is rebuilt
LoadScript(c, r) ==
  /\ variant \in {"T", "P5"} /\ mounted
  /\ pacing' = [pacing EXCEPT !.cumulativeWords = c, !.wpm = r]
  /\ UNCHANGED <<variant, hasMR, fontFit, remote, setVars, closVars, histVars, mounted, recState,
                 tcError, downloadUrl, urls, media, recordedBlobs, pc,
                 autoStart, autoTimer, p4Vars, rafVars, now, timeVars>>

\* a frame highlights the line of elapsed time e
HighlightFrame(e) ==
  /\ variant \in {"T", "P5"} /\ mounted
  /\ pacing' = [pacing EXCEPT !.frame =
                  [elapsedMs |-> e, wpm |-> pacing.wpm,
                   cumulativeWords |-> pacing.cumulativeWords,
                   currentLineIndex |->
                     findCurrentLineIndex(e, pacing.wpm, pacing.cumulativeWords)]]
  /\ UNCHANGED <<variant, hasMR, fontFit, remote, setVars, closVars, histVars, mounted, recState,
                 tcError, downloadUrl, urls, media, recordedBlobs, pc,
                 autoStart, autoTimer, p4Vars, rafVars, now, timeVars>>

NextPacing ==
  \/ \E c \in CumulativeSeqs, r \in Rates : LoadScript(c, r)
  \/ \E e \in ElapsedValues : HighlightFrame(e)
SpecPacing == InitTP /\ [][NextPacing]_vars

\* C20: for a non-empty cumulative word-count sequence, an elapsed time >= 0
\* and a rate > 0, findCurrentLineIndex returns an index of a line.
C20_LineIndexInRange ==
  pacing.frame.currentLineIndex \in 0..(Len(pacing.frame.cumulativeWords) - 1)

\* a frame after the whole of a script of MaxLines lines has been spoken
C20_PastTheLastLine ==
  LET f == pacing.frame
  IN /\ Len(f.cumulativeWords) = MaxLines
     /\ f.cumulativeWords[MaxLines] * 60000 <= f.elapsedMs * f.wpm
     /\ f.currentLineIndex = MaxLines - 1

(* =============== findCurrentLineIndex as a function ================== *)
\* arguments beyond those a frame passes: no lines at all, rates <= 0
IndexSeqs == CumulativeSeqs \cup {<< >>, <<2, 4, 6>>}
IndexRates == {-105, 0, 60, 144}
IndexElapsed == {0, 1250, 2500, 10000}

\* findCurrentLineIndex is called at two elapsed times with the same rate and
\* the same cumulative word counts
findCurrentLineIndexCalls(c, r, e1, e2) ==
  /\ variant \in {"T", "P5"}
  /\ e1 <= e2
  /\ pacing' = [pacing EXCEPT !.calls =
                  [cumulativeWords |-> c, wpm |-> r,
                   elapsed1 |-> e1, elapsed2 |-> e2,
                   index1 |-> findCurrentLineIndex(e1, r, c),
                   index2 |-> findCurrentLineIndex(e2, r, c)]]
  /\ UNCHANGED <<variant, hasMR, fontFit, remote, setVars, closVars, histVars, mounted, recState,
                 tcError, downloadUrl, urls, media, recordedBlobs, pc,
                 autoStart, autoTimer, p4Vars, rafVars, now, timeVars>>

NextIndex ==
  \E c \in IndexSeqs, r \in IndexRates, e1 \in IndexElapsed, e2 \in IndexElapsed :
     findCurrentLineIndexCalls(c, r, e1, e2)
InitIndex == InitTP /\ hasMR /\ ~autoStart
SpecIndex == InitIndex /\ [][NextIndex]_vars

\* C21: for the same cumulative word counts and the same rate > 0, a later
\* elapsed time never gives a smaller line index than an earlier one.
C21_LineIndexMonotone ==
  LET k == pacing.calls
  IN (k.wpm > 0 /\ k.elapsed1 < k.elapsed2) => k.index1 <= k.index2

\* the index has moved on between the two elapsed times
C21_IndexAdvanced ==
  LET k == pacing.calls
  IN k.wpm > 0 /\ k.elapsed1 < k.elapsed2 /\ k.index1 < k.index2

\* C22: for a non-empty cumulative sequence and a rate > 0 the index is
\* min(k, length - 1), k being the smallest index whose cumulative count is
\* strictly greater than elapsed * wpm / 60000 (the length when there is
\* none); at the instant the words spoken equal a cumulative count the index
\* has already moved past that line.
C22_IndexIsFirstCountAbove ==
  LET k == pacing.calls
      n == Len(k.cumulativeWords)
      above(e) == {i \in 0..(n - 1) :
                     k.cumulativeWords[i + 1] * 60000 > e * k.wpm}
      first(e) == IF above(e) = {} THEN n
                  ELSE CHOOSE i \in above(e) : \A j \in above(e) : i <= j
      expected(e) == IF first(e) <= n - 1 THEN first(e) ELSE n - 1
  IN (n > 0 /\ k.wpm > 0)
       => /\ k.index1 = expected(k.elapsed1)
          /\ k.index2 = expected(k.elapsed2)

\* C23: with a rate <= 0 or an empty cumulative sequence the index is 0,
\* whatever the elapsed time.
C23_NothingToPaceGivesZero ==
  LET k == pacing.calls
  IN (k.wpm <= 0 \/ Len(k.cumulativeWords) = 0)
       => (k.index1 = 0 /\ k.index2 = 0)

\* both cases have been called with an elapsed time > 0: no lines at a
\* rate > 0, or MaxLines lines at a rate <= 0
C23_CalledWithNothingToPace ==
  LET k == pacing.calls
  IN /\ k.elapsed1 > 0
     /\ \/ Len(k.cumulativeWords) = 0 /\ k.wpm > 0
        \/ Len(k.cumulativeWords) = MaxLines /\ k.wpm < 0
     /\ k.index2 = 0

(* ================ idle and finished frames (T, P5) ==================== *)
\* the line that drawFrame highlights when it runs in this state
currentLineIndex ==
  findCurrentLineIndex(elapsedT, pacing.wpm, pacing.cumulativeWords)

FinishRates == {105, 150}
\* the scripts of MaxWords words
FinishScripts == {c \in CumulativeSeqs : c[Len(c)] = MaxWords}

NextFinish ==
  \/ \E c \in FinishScripts, r \in FinishRates : LoadScript(c, r)
  \/ handleStart(FALSE)
  \/ \E a \in Attempts : attachCameraResolved(a)
  \/ \E a \in Attempts : handleStartMicResolved(a)
  \/ handleStopT
  \/ handleStopP5
  \/ \E a \in Attempts : mr_onstop(a)
  \/ handleResetRecordingT
  \/ handleResetRecordingP5
  \/ drawFrame
SpecFinish == InitIndex /\ [][NextFinish]_vars

\* C24: a frame of an idle state computes elapsed time 0 and highlights
\* line 0; a frame of a finished state computes totalWords / wpm minutes
\* (here in whole ms plus the rest of the division) and highlights the last
\* line of the script.
C24_IdleAndFinishedFrames ==
  LET c == pacing.cumulativeWords
  IN (variant \in {"T", "P5"} /\ mounted) =>
       /\ recState = "idle" => (elapsedT = 0 /\ currentLineIndex = 0)
       /\ recState = "finished" =>
            /\ elapsedT * pacing.wpm + totalMsRest = c[Len(c)] * 60000
            /\ totalMsRest \in 0..(pacing.wpm - 1)
            /\ currentLineIndex = Len(c) - 1

\* a session has finished with a script of MaxLines lines
C24_FinishedLongScript ==
  /\ variant \in {"T", "P5"} /\ mounted /\ recState = "finished"
  /\ Len(pacing.cumulativeWords) = MaxLines
  /\ currentLineIndex = MaxLines - 1

(* ======================= buildLineMeta (T, P5) ======================== *)
MaxChars == 4       \* characters of a script

\* A script is a sequence of characters: a word character, a joiner of the
\* class [’'-], a blank, and the two line-break characters.
Chars == {"a", "-", " ", "CR", "LF"}
Whitespace == {" ", "CR", "LF"}

\* the optional \r of the separator /\r?\n/
dropCR(l) ==
  IF Len(l) > 0 /\ l[Len(l)] = "CR" THEN SubSeq(l, 1, Len(l) - 1) ELSE l

\* script.split(/\r?\n/) from character i on, cur being the piece so far
RECURSIVE split(_, _, _)
split(script, i, cur) ==
  IF i > Len(script) THEN <<cur>>
  ELSE IF script[i] = "LF"
  THEN <<dropCR(cur)>> \o split(script, i + 1, << >>)
  ELSE split(script, i + 1, Append(cur, script[i]))

\* l.trimEnd()
\* (mutant: the line is kept as it is)
RECURSIVE trimEnd(_)
trimEnd_kept(l) == l
trimEnd(l) ==
  IF Len(l) > 0 /\ l[Len(l)] \in Whitespace
  THEN trimEnd(SubSeq(l, 1, Len(l) - 1))
  ELSE l

\* s.match(/\b[\w’'-]+\b/gi).length from character i on: one match for every
\* run of word characters and joiners that holds a word character; counted
\* says that the run at hand has its match already
RECURSIVE countWordsFrom(_, _, _)
countWordsFrom(l, i, counted) ==
  IF i > Len(l) THEN 0
  ELSE IF l[i] = "a"
  THEN (IF counted THEN 0 ELSE 1) + countWordsFrom(l, i + 1, TRUE)
  ELSE IF l[i] = "-" THEN countWordsFrom(l, i + 1, counted)
  ELSE countWordsFrom(l, i + 1, FALSE)
countWords(l) == countWordsFrom(l, 1, FALSE)

\* Math.max(1, countWords(line))
\* (mutant: the count as it is)
atLeastOne_skipped(w) == w
atLeastOne(w) == IF w >= 1 THEN w ELSE 1

RECURSIVE sumTo(_, _)
sumTo(w, i) == IF i = 0 THEN 0 ELSE sumTo(w, i - 1) + w[i]

buildLineMeta(script) ==
  LET pieces == split(script, 1, << >>)
      trimmed == [i \in 1..Len(pieces) |-> trimEnd(pieces[i])]
      rawLines == SelectSeq(trimmed, LAMBDA l : Len(l) > 0)
      wordsPerLine == [i \in 1..Len(rawLines) |->
                         atLeastOne(countWords(rawLines[i]))]
  IN IF Len(rawLines) = 0
     THEN [lines |-> << << >> >>, wordsPerLine |-> <<1>>,
           totalWords |-> 1, cumulativeWords |-> <<1>>]
     ELSE [lines |-> rawLines, wordsPerLine |-> wordsPerLine,
           totalWords |-> sumTo(wordsPerLine, Len(rawLines)),
           cumulativeWords |-> [i \in 1..Len(rawLines) |->
                                  sumTo(wordsPerLine, i)]]

\* the textarea's onChange: a character is typed at the end of the script,
\* or the last one is deleted; lineMeta is rebuilt
setScript(s) ==
  /\ variant \in {"T", "P5"} /\ mounted
  /\ pacing' = [pacing EXCEPT !.script = s, !.meta = buildLineMeta(s)]
  /\ UNCHANGED <<variant, hasMR, fontFit, remote, setVars, closVars, histVars, mounted, recState,
                 tcError, downloadUrl, urls, media, recordedBlobs, pc,
                 autoStart, autoTimer, p4Vars, rafVars, now, timeVars>>

NextMeta ==
  \/ \E ch \in Chars :
       Len(pacing.script) < MaxChars /\ setScript(Append(pacing.script, ch))
  \/ Len(pacing.script) > 0
       /\ setScript(SubSeq(pacing.script, 1, Len(pacing.script) - 1))
SpecMeta == InitIndex /\ [][NextMeta]_vars

\* C25: the lines of buildLineMeta are, in the order of the text, the lines
\* of the script (pieces between line feeds) cut after their last
\* non-whitespace character, those without such a character left out; when
\* none is left the result is one empty line with word count 1, total 1 and
\* cumulative counts [1].
C25_LinesAreTheNonBlankLines ==
  LET s == pacing.script
      m == pacing.meta
      feeds == {i \in 1..Len(s) : s[i] = "LF"}
      starts == {1} \cup {i + 1 : i \in feeds}
      stop(p) == IF \E i \in feeds : i >= p
                 THEN (CHOOSE i \in feeds :
                         i >= p /\ \A j \in feeds : j >= p => i <= j) - 1
                 ELSE Len(s)
      inked(p) == {j \in p..stop(p) : s[j] \notin Whitespace}
      content(p) == SubSeq(s, p, CHOOSE j \in inked(p) :
                                   \A k \in inked(p) : k <= j)
      nonBlank == {p \in starts : inked(p) # {}}
  IN IF nonBlank = {}
     THEN m = [lines |-> << << >> >>, wordsPerLine |-> <<1>>,
               totalWords |-> 1, cumulativeWords |-> <<1>>]
     ELSE /\ Len(m.lines) = Cardinality(nonBlank)
          /\ \A p \in nonBlank :
               m.lines[Cardinality({q \in nonBlank : q <= p})] = content(p)

\* a script whose two lines have a blank line between them
C25_BlankLineDropped ==
  /\ \E i \in 2..(Len(pacing.script) - 1) :
        /\ pacing.script[i] = "LF"
        /\ pacing.script[i + 1] = "LF"
        /\ i + 1 < Len(pacing.script)
  /\ Len(pacing.meta.lines) = 2

\* C26: every line of buildLineMeta has a word count >= 1, the cumulative
\* count of a line is the sum of the word counts up to it (so the counts
\* increase strictly), and the last cumulative count is totalWords >= 1.
C26_CumulativeCountsAddUp ==
  LET m == pacing.meta
      n == Len(m.lines)
  IN /\ n >= 1
     /\ Len(m.wordsPerLine) = n /\ Len(m.cumulativeWords) = n
     /\ \A i \in 1..n : m.wordsPerLine[i] >= 1
     /\ m.cumulativeWords[1] = m.wordsPerLine[1]
     /\ \A i \in 2..n :
          m.cumulativeWords[i] = m.cumulativeWords[i - 1] + m.wordsPerLine[i]
     /\ \A i \in 2..n : m.cumulativeWords[i - 1] < m.cumulativeWords[i]
     /\ m.cumulativeWords[n] = m.totalWords
     /\ m.totalWords >= 1

\* a script whose first line holds no word and whose second holds one
C26_LineWithoutWords ==
  LET m == pacing.meta
  IN /\ Len(m.lines) = 2
     /\ countWords(m.lines[1]) = 0 /\ countWords(m.lines[2]) = 1
     /\ m.cumulativeWords = <<1, 2>>

(* ===================== start without a recorder ======================= *)
\* C27: where the environment has no MediaRecorder, a start attempt is
\* turned down before anything is acquired: the state stays idle, every
\* attempt has ended with the message about missing support, none is waiting
\* for a camera or a microphone, and no stream of an attempt is live.
C27_UnsupportedDetectedBeforeUse ==
  (variant \in {"T", "P5"} /\ ~hasMR) =>
     /\ recState = "idle"
     /\ \A a \in Attempts :
          /\ pc[a] \in {"none", "unsupported"}
          /\ ~media.mic[a] /\ ~media.cam[a]

(* ===================== preview after a failed start =================== *)
\* the video element shows a live camera stream
CameraLive(m) == m.preview \/ (m.videoSrc # 0 /\ m.cam[m.videoSrc])

\* a start attempt fails in this step
StartFails ==
  \E a \in Attempts : pc[a] \in {"cam", "mic"} /\ pc'[a] = "failed"

\* C28: when a start attempt fails on a mounted page, a frame is still
\* pending afterwards and a camera stream that was live in the video element
\* is still live there.
C28_PreviewSurvivesFailedStart ==
  [][(variant \in {"T", "P5"} /\ mounted /\ StartFails)
       => (rafPending' > 0 /\ (CameraLive(media) => CameraLive(media')))]_vars

(* ====================== what a frame paints ============================ *)
\* The 2D context of the canvas, as far as the horizontal axis goes: whether
\* it is flipped, and the values that ctx.save() has stacked.
NewCtx == [flip |-> FALSE, saved |-> << >>]
ctxSave(c) == [c EXCEPT !.saved = Append(@, c.flip)]
ctxRestore(c) ==
  IF Len(c.saved) = 0 THEN c
  ELSE [flip |-> c.saved[Len(c.saved)],
        saved |-> SubSeq(c.saved, 1, Len(c.saved) - 1)]
\* ctx.translate(width, 0); ctx.scale(-1, 1)
ctxMirror(c) == [c EXCEPT !.flip = ~@]

\* T: drawFrame never reads settings.mirror; the camera is drawn inside its
\* own save/restore, then the text
paintT(m) ==
  LET c1 == ctxSave(NewCtx)
      c2 == ctxSave(c1)
      c3 == ctxRestore(c2)
  IN [camera |-> c2.flip, text |-> c3.flip]

\* P5: the flip is made right after the outer save; the camera is drawn
\* inside its own save/restore, then the text
paintP5(m) ==
  LET c1 == ctxSave(NewCtx)
      c2 == IF m THEN ctxMirror(c1) ELSE c1
      c3 == ctxSave(c2)
      c4 == ctxRestore(c3)
  IN [camera |-> c3.flip, text |-> c4.flip]

\* P4: the text is drawn between the flip and ctx.restore(); the camera is
\* drawn after the restore
paintP4(m) ==
  LET c1 == ctxSave(NewCtx)
      c2 == IF m THEN ctxMirror(c1) ELSE c1
      c3 == ctxRestore(c2)
  IN [text |-> c2.flip, camera |-> c3.flip]

\* what the pending frame paints: T and P5 re-create drawFrame on every
\* render; P4's layoutAndDraw keeps the settings of the render that started
\* the loop
painted ==
  IF variant = "T" THEN paintT(mirror)
  ELSE IF variant = "P5" THEN paintP5(mirror)
  ELSE paintP4(frameClosure[1])

\* T, P5: the "Mirror text" checkbox, handleChangeSettings("mirror", checked).
\* P5's drawFrame depends on settings.mirror, so its render-loop effect runs
\* again: the cleanup cancels the frame, calls stopTracks() and stops the
\* referenced recorder, and a new frame is requested.
handleChangeSettingsMirror ==
  /\ variant \in {"T", "P5"} /\ mounted
  /\ mirror' = ~mirror
  /\ IF variant = "P5"
     THEN /\ media' = stopRef(stopTracks(media))
          /\ rafPending' = CancelRaf(rafPending, rafRef) + 1
          /\ rafRef' = 1
     ELSE UNCHANGED <<media, rafVars>>
  /\ UNCHANGED <<envVars, closVars, histVars, wpm, fontSize, pipPct, mounted,
                 recState, tcError, downloadUrl, urls, recordedBlobs, pc,
                 autoStart, autoTimer, p4Vars, now, timeVars>>

InitMirror == Init /\ hasMR /\ ~autoStart
NextMirror ==
  \/ handleChangeSettingsMirror
  \/ UiSetMirror
  \/ handleStart(FALSE)
  \/ \E a \in Attempts : attachCameraResolved(a)
  \/ \E a \in Attempts : handleStartMicResolved(a)
  \/ drawFrame
  \/ handleStartP4("button")
  \/ \E a \in Attempts : countdownDone(a)
  \/ \E a \in Attempts : startRecordingMicResolved(a)
  \/ layoutAndDraw(TRUE)
SpecMirror == InitMirror /\ [][NextMirror]_vars

\* C29: the frame that is pending paints the text and the camera inset with
\* the same orientation, flipped exactly when the mirror setting is on.
C29_TextAndCameraMirrorTogether ==
  (mounted /\ rafPending > 0)
     => (painted.text = mirror /\ painted.camera = mirror)

(* ========================= font fitting (P5) ========================== *)
\* settings.fontSize: the slider offers 22 to 44
FontSizes == {22, 28, 32, 38, 44}
\* canvas.clientWidth
CanvasWidths == {360, 800, 1280}
\* the widest line of the script as ctx.measureText gives it at the
\* configured size
LineWidths == {0, 200, 280, 281, 720, 721, 900, 2000}

\* the second half of drawFrame's text layout: the size the lines are drawn
\* with.  Math.floor(rawFontSize * (maxAllowedWidth / maxLineWidth)) is taken
\* as the whole part of the exact quotient; for the values above the
\* binary64 result is the same
effectiveFontSize(rawFontSize, width, maxLineWidth) ==
  LET margin == 40
      maxAllowedWidth == width - margin * 2
      fitted == (rawFontSize * maxAllowedWidth) \div maxLineWidth
  IN IF maxLineWidth > maxAllowedWidth /\ maxLineWidth > 0
     THEN (IF fitted >= 14 THEN fitted ELSE 14)
     ELSE rawFontSize

\* a frame of P5 measures the lines and picks the size to draw with
drawFrameFont(raw, w, lw) ==
  /\ variant = "P5" /\ mounted
  /\ fontFit' = [rawFontSize |-> raw, width |-> w, maxLineWidth |-> lw,
                 effectiveFontSize |-> effectiveFontSize(raw, w, lw)]
  /\ UNCHANGED <<variant, hasMR, pacing, remote, setVars, closVars, histVars, mounted,
                 recState, tcError, downloadUrl, urls, media, recordedBlobs,
                 pc, autoStart, autoTimer, p4Vars, rafVars, now, timeVars>>

InitFont == Init /\ variant = "P5"
NextFont ==
  \E raw \in FontSizes, w \in CanvasWidths, lw \in LineWidths :
     drawFrameFont(raw, w, lw)
SpecFont == InitFont /\ [][NextFont]_vars

\* C30: the size a frame draws with is at most the configured size; where
\* the widest line is wider than the available width at the configured size,
\* the size is smaller than the configured one and the widest line, its
\* width scaled with the size, is at most the available width.
C30_WidestLineFits ==
  LET f == fontFit
      available == f.width - 80
  IN /\ f.effectiveFontSize <= f.rawFontSize
     /\ f.maxLineWidth > available =>
          /\ f.effectiveFontSize < f.rawFontSize
          /\ f.maxLineWidth * f.effectiveFontSize <= available * f.rawFontSize

(* ================= the remote controller page ========================= *)
MaxPosted == 3      \* messages posted by the remote controller

Undefined == [t |-> "undefined", v |-> 0]

\* bcRef.current?.postMessage({ type, value })
\* (mutant: the message is posted whether or not a channel is held)
postMessage_unguarded(bc, posted, m) == Append(posted, m)
postMessage(bc, posted, m) == IF bc THEN Append(posted, m) ELSE posted

\* the page is loaded in a browser that has BroadcastChannel or has not;
\* the first render shows the controls (supported starts as true)
OpenRemote(b) ==
  /\ remote.page = "closed"
  /\ remote' = [NoRemotePage EXCEPT !.page = "first", !.hasBC = b]
  /\ UNCHANGED <<variant, hasMR, pacing, fontFit, setVars, closVars, histVars,
                 mounted, recState, tcError, downloadUrl, urls, media,
                 recordedBlobs, pc, autoStart, autoTimer, p4Vars, rafVars,
                 now, timeVars>>

\* the mount effect: without BroadcastChannel setSupported(false), otherwise
\* the channel is opened and kept in bcRef
RemoteMountEffect ==
  /\ remote.page = "first"
  /\ remote' = IF remote.hasBC
               THEN [remote EXCEPT !.page = "ready", !.bc = TRUE]
               ELSE [remote EXCEPT !.page = "ready", !.supported = FALSE]
  /\ UNCHANGED <<variant, hasMR, pacing, fontFit, setVars, closVars, histVars,
                 mounted, recState, tcError, downloadUrl, urls, media,
                 recordedBlobs, pc, autoStart, autoTimer, p4Vars, rafVars,
                 now, timeVars>>

\* a control of the page calls send(type, value): the three buttons, the
\* blur of the WPM, font and PIP inputs (with their initial values) and the
\* mirror checkbox; the controls are rendered only while supported is true
RemoteSend(type) ==
  /\ remote.page \in {"first", "ready"} /\ remote.supported
  /\ Len(remote.posted) < MaxPosted
  /\ LET value == CASE type = "speed" -> Num(150)
                    [] type = "font" -> Num(48)
                    [] type = "pip" -> Num(18)
                    [] type = "mirror" -> Bool(~remote.mirror)
                    [] OTHER -> Undefined
     IN remote' = [remote EXCEPT
                     !.mirror = IF type = "mirror" THEN ~@ ELSE @,
                     !.tried = TRUE,
                     !.posted = postMessage(remote.bc, @,
                                            [type |-> type, value |-> value])]
  /\ UNCHANGED <<variant, hasMR, pacing, fontFit, setVars, closVars, histVars,
                 mounted, recState, tcError, downloadUrl, urls, media,
                 recordedBlobs, pc, autoStart, autoTimer, p4Vars, rafVars,
                 now, timeVars>>

\* the page is left: the effect's cleanup closes the channel
CloseRemote ==
  /\ remote.page = "ready"
  /\ remote' = [remote EXCEPT !.page = "closed", !.bc = FALSE]
  /\ UNCHANGED <<variant, hasMR, pacing, fontFit, setVars, closVars, histVars,
                 mounted, recState, tcError, downloadUrl, urls, media,
                 recordedBlobs, pc, autoStart, autoTimer, p4Vars, rafVars,
                 now, timeVars>>

MessageTypes ==
  {"start", "pauseResume", "finish", "speed", "font", "mirror", "pip"}
NextController ==
  \/ \E b \in BOOLEAN : OpenRemote(b)
  \/ RemoteMountEffect
  \/ \E type \in MessageTypes : RemoteSend(type)
  \/ CloseRemote
SpecController == InitP4 /\ [][NextController]_vars

\* C31: in a browser without BroadcastChannel the remote controller holds
\* no channel and has posted nothing, whatever has been clicked, and once its
\* mount effect has run it shows the unsupported message instead of the
\* controls.
C31_NoChannelNoMessages ==
  (remote.page # "closed" /\ ~remote.hasBC) =>
     /\ ~remote.bc
     /\ remote.posted = << >>
     /\ remote.page = "ready" => ~remote.supported

\* a control was used before the unsupported message replaced the controls
C31_SendTriedWithoutChannel ==
  /\ remote.page = "ready" /\ ~remote.hasBC /\ remote.tried
  /\ ~remote.supported /\ remote.posted = << >>

(* ================= re-renders during a session (T, P5) ================ *)
\* a start attempt succeeds in this step: the recorder has been started and
\* setRecState("recording") re-renders the page
StartSucceeds(a) == pc[a] = "mic" /\ pc'[a] = "ok"

\* the mirror setting is edited in this step
MirrorEdited == mirror' # mirror

\* C32: the re-render that follows a successful start leaves the session in
\* recording with that attempt's recorder recording and the camera of the
\* video element live; the re-render that follows an edit of a setting
\* leaves every recorder and the camera as they were.
C32_RerenderKeepsSessionAlive ==
  [][(variant \in {"T", "P5"} /\ mounted) =>
       /\ \A a \in Attempts :
            StartSucceeds(a) =>
              /\ recState' = "recording"
              /\ media'.rec[a] = "recording"
              /\ (variant = "P5" \/ CameraLive(media)) => CameraLive(media')
       /\ MirrorEdited =>
            /\ media'.rec = media.rec
            /\ CameraLive(media) => CameraLive(media')]_vars

(* ================== capture state and recorder agree ================== *)
\* C33: while the page is mounted, in recording exactly one recorder is
\* recording and none is paused, in paused exactly one is paused and none is
\* recording, and in idle, countdown and finished no recorder is active.
C33_StateAndRecorderAgree ==
  LET recording == {a \in Attempts : media.rec[a] = "recording"}
      paused == {a \in Attempts : media.rec[a] = "paused"}
  IN mounted =>
       /\ recState = "recording" =>
            (Cardinality(recording) = 1 /\ paused = {})
       /\ recState = "paused" =>
            (Cardinality(paused) = 1 /\ recording = {})
       /\ recState \in {"idle", "countdown", "finished"} =>
            (recording = {} /\ paused = {})

(* ======================== chunks of an artifact ======================= *)
\* C34: the artifact that a recorder's stop event assembles holds only
\* chunks that this recorder has emitted.
C34_ArtifactHoldsOwnChunksOnly ==
  variant \in {"T", "P5"} =>
    \A a \in Attempts :
      urls[a].made =>
        \A i \in 1..Len(urls[a].chunks) : urls[a].chunks[i] = a

(* ------------------------- one render loop ---------------------------- *)
\* C35: at any time at most one animation frame is pending, and it is the
\* frame whose handle rafRef.current holds: every path that requests a
\* frame cancels or supersedes the one requested before.
C35_OneFrameChain ==
  /\ rafPending <= 1
  /\ (rafPending = 1 => rafRef = 1)

(* ---------------------- start commands (P4) --------------------------- *)
\* a start command from any of its three sources reaches handleStart
StartCommand ==
  \E src \in {"button", "timer", "remote"} : handleStartP4(src)

\* C36: in the countdown variant a start command that arrives in a state
\* other than idle is ignored: it begins no countdown and changes neither
\* the state nor any start in flight.
C36_StartIgnoredUnlessIdle ==
  [][(StartCommand /\ recState # "idle") => UNCHANGED <<recState, pc>>]_vars

(* --------------------- finish before the start ------------------------ *)
\* a finish command from the HUD button or the remote reaches handleFinish
FinishCommand ==
  \E src \in {"button", "remote"} : handleFinish(src)

\* a handleStart is waiting in its countdown or in startRecording for the
\* microphone: its continuation will create the recorder and request the
\* first frame of the render loop
StartPending(p) ==
  \E a \in Attempts : p[a] \in {"countdown", "mic"}

\* C37: in the countdown variant a finish received during the countdown, or
\* before the recorder has been started, cancels the pending start: once
\* handleFinish has run, no start is left that would go on to create a
\* recorder or to request a frame.
C37_FinishCancelsPendingStart ==
  [][(FinishCommand /\ StartPending(pc)) => ~StartPending(pc')]_vars

(* ----------------------- elapsed time is a time ----------------------- *)
\* C38: the elapsed active time that a frame computes is never negative,
\* whatever the interleaving of start, pause, resume and frames, and whether
\* the pause and the resume come after or before the first recording frame
\* has set startTsRef.
C38_ElapsedNeverNegative ==
  [][FrameStep => elapsed >= 0]_vars

(* ------------------- New session and the duration --------------------- *)
\* C39: in the countdown variant New session resets only the recording
\* state: after it the duration that paces the next recording is still
\* totalWords / max(20, wpm) minutes for the current script and rate.
C39_NewSessionKeepsDuration ==
  [][handleNewSession
       => durationRef' = durationFromWpm(FallbackWords, wpm')]_vars

====
